---- MODULE Spec2Model ----
(***************************************************************************)
(* Host side of the LPC mailbox to the BMC (hw/lpc-mbox.c).                *)
(*                                                                         *)
(* The state is the singleton `struct mbox`, the mailbox registers behind  *)
(* the LPC bus, the message buffers the callers own, and the position of   *)
(* every context that runs driver code: the callers of bmc_mbox_enqueue    *)
(* and the two ways mbox_poll is entered (the poller timer and mbox_irq).  *)
(* One step of a context is one access to shared state (a register access, *)
(* a lock operation, a read or write of mbox.in_flight), so every          *)
(* interleaving of the contexts on several CPUs is a behaviour.            *)
(***************************************************************************)
EXTENDS Integers, Sequences, FiniteSets, TLC

(* ------------------------------------------------------------------ *)
(* Register map and flag values                                        *)
(* ------------------------------------------------------------------ *)
MBOX_STATUS_1 == 17
MBOX_STATUS_ATTN == 128
MBOX_BMC_CTRL == 18
MBOX_CTRL_INT_STATUS == 128
MBOX_CTRL_INT_MASK == 2
MBOX_CTRL_INT_SEND == 1
MBOX_HOST_CTRL == 19
MBOX_HOST_INT_EN_0 == 22
MBOX_HOST_INT_EN_1 == 23
BMC_RESET == 1

(* Return codes of bmc_mbox_enqueue. *)
OPAL_SUCCESS == "OPAL_SUCCESS"
OPAL_BUSY == "OPAL_BUSY"
OPAL_WRONG_STATE == "OPAL_WRONG_STATE"

(* ------------------------------------------------------------------ *)
(* Bounds of the model                                                 *)
(* ------------------------------------------------------------------ *)
\* Number of mailbox data registers (the message size in bytes).
NumDataRegs == 2
\* Number of calls of bmc_mbox_enqueue, responses and attentions of the BMC.
MaxEvents == 4

NULL == "NULL"
Callers == {"c1", "c2"}
Detectors == {"timer", "irq"}
Contexts == Callers \cup Detectors
DataRegs == 0 .. (NumDataRegs - 1)
Bytes == 0 .. 255
\* The message a caller sends: byte 0 is 1, the others are 0.
Request == [i \in DataRegs |-> IF i = 0 THEN 1 ELSE 0]
\* The messages the callers send.
Requests == {Request}
\* The response the BMC gives: bytes 1, 2, ..
Response == [i \in DataRegs |-> i + 1]
Responses == {Response}
\* The action byte the BMC leaves in the flag register: nothing, the reset
\* flag alone, an unknown flag alone, both.
ActionBytes == {0, 1, 2, 3}
\* The I/O base the device tree gives for the mailbox.
IOBase == 4096
\* What mbox_init finds in the device tree and on the bus.
DtConfigs == {"ok", "no_node", "no_irq", "no_lpc", "no_reg", "not_io"}
ControlRegs == {MBOX_STATUS_1, MBOX_BMC_CTRL, MBOX_HOST_CTRL,
                MBOX_HOST_INT_EN_0, MBOX_HOST_INT_EN_1}
Regs == DataRegs \cup ControlRegs

(* ------------------------------------------------------------------ *)
(* Bit operations on bytes                                             *)
(* ------------------------------------------------------------------ *)
RECURSIVE BitAnd(_, _)
BitAnd(a, b) ==
    IF a = 0 \/ b = 0 THEN 0
    ELSE (IF a % 2 = 1 /\ b % 2 = 1 THEN 1 ELSE 0) + 2 * BitAnd(a \div 2, b \div 2)

\* a & ~b
BitClear(a, b) == a - BitAnd(a, b)

VARIABLES
    dt,         \* what the device tree and the bus hold for mbox_init
    base,       \* mbox.base, 0 until mbox_init stores the I/O base
    irq_ok,     \* mbox.irq_ok
    callback,   \* mbox.callback
    drv_data,   \* mbox.drv_data
    lock,       \* holder of mbox.lock, NULL when free
    in_flight,  \* mbox.in_flight: NULL or the caller's message
    poller,     \* mbox.poller: "off", or how it is scheduled
    client,     \* mbox_lpc_client is registered with the LPC bus
    regs,       \* the mailbox registers, by offset
    irq,        \* the LPC bus has latched a mailbox interrupt
    mem,        \* the callers' message buffers
    pc,         \* where each context stands
    msg,        \* local msg of each mbox_poll pass
    overlap,    \* the running mbox_poll pass ran beside the other pass
    out,        \* what the last step returned and logged
    nEv,        \* enqueue calls, responses and attentions so far
    answered    \* the BMC has set the response bit since the message in
                \* flight was put into mbox.in_flight

vars == <<dt, base, irq_ok, callback, drv_data, lock, in_flight, poller, client,
          regs, irq, mem, pc, msg, overlap, out, nEv, answered>>

mboxVars == <<base, irq_ok, callback, drv_data, lock, in_flight, poller, client>>
hwVars == <<regs, irq>>
envVars == <<dt, nEv, answered>>
passVars == <<msg, overlap>>

(* ------------------------------------------------------------------ *)
(* What a step shows to the outside                                    *)
(* ------------------------------------------------------------------ *)
\* The step returned code to the caller of bmc_mbox_enqueue or mbox_init
\* (NULL: it was no return), wrote the messages in logs to the log and,
\* with cb, invoked mbox.callback.
Event(code, logs) == [code |-> code, logs |-> logs, cb |-> FALSE]

Quiet == Event(NULL, {})

CallbackEvent == [code |-> NULL, logs |-> {}, cb |-> TRUE]

(* ------------------------------------------------------------------ *)
(* MBOX accesses                                                       *)
(* ------------------------------------------------------------------ *)
\* What the register file holds after the host writes val to reg. The
\* status bits are write-one-to-clear, the send bit of the host control
\* register is the doorbell of the BMC and is not stored.
bmc_mbox_outb(r, val, reg) ==
    IF reg \in {MBOX_HOST_CTRL, MBOX_STATUS_1}
    THEN [r EXCEPT ![reg] = BitClear(r[reg], BitAnd(val, 128))]
    ELSE [r EXCEPT ![reg] = val]

bmc_mbox_inb(r, reg) == r[reg]

\* A receive loop that stops one register short.
bmc_mbox_recv_message_short(buf, r) ==
    [i \in DataRegs |-> IF i < NumDataRegs - 1 THEN bmc_mbox_inb(r, i) ELSE buf[i]]

\* bmc_mbox_recv_message: the loop reads data register i into byte i of the
\* message, i = 0 .. BMC_MBOX_DATA_REGS - 1.
RECURSIVE RecvLoop(_, _, _)
RecvLoop(buf, r, i) ==
    IF i >= NumDataRegs THEN buf
    ELSE RecvLoop([buf EXCEPT ![i] = bmc_mbox_inb(r, i)], r, i + 1)

bmc_mbox_recv_message(buf, r) == RecvLoop(buf, r, 0)

\* A send loop that writes every byte to the register after its own.
bmc_mbox_send_message_shifted(r, buf) ==
    [x \in Regs |-> IF x \in DataRegs /\ x > 0 THEN buf[x - 1] ELSE r[x]]

\* bmc_mbox_send_message: the loop writes byte i of the message to data
\* register i, i = 0 .. BMC_MBOX_DATA_REGS - 1. The doorbell is a later step.
RECURSIVE SendLoop(_, _, _)
SendLoop(r, buf, i) ==
    IF i >= NumDataRegs THEN r
    ELSE SendLoop(bmc_mbox_outb(r, buf[i], i), buf, i + 1)

bmc_mbox_send_message(r, buf) == SendLoop(r, buf, 0)

\* schedule_timer(&mbox.poller, mbox.irq_ok ? TIMER_POLL : msecs_to_tb(..))
schedule_timer(ok) == IF ok THEN "TIMER_POLL" ELSE "MBOX_DEFAULT_POLL_MS"

(* ------------------------------------------------------------------ *)
(* Initial state: nothing initialised, a response bit may be left over *)
(* ------------------------------------------------------------------ *)
Init ==
    /\ dt \in DtConfigs
    /\ base = 0
    /\ irq_ok = FALSE
    /\ callback = NULL
    /\ drv_data = NULL
    /\ lock = NULL
    /\ in_flight = NULL
    /\ poller = "off"
    /\ client = FALSE
    /\ regs \in {[r \in Regs |-> IF r = MBOX_HOST_CTRL THEN s ELSE 0] :
                    s \in {0, MBOX_CTRL_INT_STATUS}}
    /\ irq = FALSE
    /\ mem = [c \in Callers |-> Request]
    /\ pc = [x \in Contexts |-> "idle"]
    /\ msg = [d \in Detectors |-> NULL]
    /\ overlap = [d \in Detectors |-> FALSE]
    /\ out = Quiet
    /\ nEv = 0
    /\ answered = FALSE

(* ------------------------------------------------------------------ *)
(* mbox_init and bmc_mbox_register_callback                            *)
(* ------------------------------------------------------------------ *)
\* The four register writes of mbox_init_hw, in order.
mbox_init_hw(r) ==
    LET r1 == bmc_mbox_outb(r, 0, MBOX_HOST_INT_EN_0)
        r2 == bmc_mbox_outb(r1, MBOX_STATUS_ATTN, MBOX_HOST_INT_EN_1)
        r3 == bmc_mbox_outb(r2, MBOX_CTRL_INT_STATUS, MBOX_HOST_CTRL)
    IN  bmc_mbox_outb(r3, MBOX_CTRL_INT_MASK, MBOX_BMC_CTRL)

\* mbox_init without the test of mbox.base: a repeated call sets the driver
\* up again.
mbox_init_again ==
    /\ IF dt # "ok"
       THEN /\ out' = Event("abort", {dt})
            /\ UNCHANGED <<mboxVars, hwVars>>
       ELSE /\ base' = IOBase
            /\ regs' = mbox_init_hw(regs)
            /\ in_flight' = NULL
            /\ callback' = NULL
            /\ drv_data' = NULL
            /\ lock' = NULL
            /\ poller' = "off"
            /\ client' = TRUE
            /\ out' = Event("enabled", {})
            /\ UNCHANGED <<irq_ok, irq>>
    /\ UNCHANGED <<envVars, mem, pc, passVars>>

\* A repeated call returns at once. A call that does not find the node, the
\* interrupts property, the LPC bus or an I/O reg property returns before it
\* stores the base. Otherwise the base is stored, the hardware set up, the
\* fields of mbox reset, the timer initialised (not scheduled) and the LPC
\* client registered.
mbox_init ==
    /\ IF base # 0
       THEN /\ out' = Event("duplicate", {"Duplicate call to mbox_init()"})
            /\ UNCHANGED <<mboxVars, hwVars>>
       ELSE IF dt # "ok"
       THEN /\ out' = Event("abort", {dt})
            /\ UNCHANGED <<mboxVars, hwVars>>
       ELSE /\ base' = IOBase
            /\ regs' = mbox_init_hw(regs)
            /\ in_flight' = NULL
            /\ callback' = NULL
            /\ drv_data' = NULL
            /\ lock' = NULL
            /\ poller' = "off"
            /\ client' = TRUE
            /\ out' = Event("enabled", {})
            /\ UNCHANGED <<irq_ok, irq>>
    /\ UNCHANGED <<envVars, mem, pc, passVars>>

bmc_mbox_register_callback ==
    /\ \E f \in {NULL, "cb"} :
          /\ f # callback
          /\ callback' = f
          /\ drv_data' = IF f = NULL THEN NULL ELSE "priv"
    /\ out' = Quiet
    /\ UNCHANGED <<base, irq_ok, lock, in_flight, poller, client, hwVars,
                   envVars, mem, pc, passVars>>

(* ------------------------------------------------------------------ *)
(* bmc_mbox_enqueue, one caller c with its message buffer c            *)
(* ------------------------------------------------------------------ *)
\* The call without the test of mbox.base.
EnqueueCall_no_base_test(c) ==
    /\ pc[c] = "idle"
    /\ nEv < MaxEvents
    /\ nEv' = nEv + 1
    /\ \E m \in Requests :
          mem' = IF in_flight = c THEN mem ELSE [mem EXCEPT ![c] = m]
    /\ out' = Quiet
    /\ pc' = [pc EXCEPT ![c] = "lock"]
    /\ UNCHANGED <<mboxVars, hwVars, dt, answered, passVars>>

\* The call: the caller has filled its buffer (unless the driver holds it)
\* and the base is tested.
EnqueueCall(c) ==
    /\ pc[c] = "idle"
    /\ nEv < MaxEvents
    /\ nEv' = nEv + 1
    /\ \E m \in Requests :
          mem' = IF in_flight = c THEN mem ELSE [mem EXCEPT ![c] = m]
    /\ IF base = 0
       THEN /\ out' = Event(OPAL_WRONG_STATE, {"Using MBOX without init!"})
            /\ pc' = pc
       ELSE /\ out' = Quiet
            /\ pc' = [pc EXCEPT ![c] = "lock"]
    /\ UNCHANGED <<mboxVars, hwVars, dt, answered, passVars>>

\* lock(&mbox.lock)
EnqueueLock(c) ==
    /\ pc[c] = "lock"
    /\ lock = NULL
    /\ lock' = c
    /\ pc' = [pc EXCEPT ![c] = "locked"]
    /\ out' = Quiet
    /\ UNCHANGED <<base, irq_ok, callback, drv_data, in_flight, poller, client,
                   hwVars, envVars, mem, passVars>>

\* The set of mbox.in_flight without the test: the message replaces the one
\* in flight.
EnqueueCheck_no_test(c) ==
    /\ pc[c] = "locked"
    /\ lock' = NULL
    /\ in_flight' = c
    /\ out' = Quiet
    /\ pc' = [pc EXCEPT ![c] = "send"]
    /\ answered' = FALSE
    /\ UNCHANGED <<base, irq_ok, callback, drv_data, poller, client,
                   hwVars, dt, nEv, mem, passVars>>

\* A busy path that returns without unlock.
EnqueueCheck_busy_keeps_lock(c) ==
    /\ pc[c] = "locked"
    /\ IF in_flight # NULL
       THEN /\ out' = Event(OPAL_BUSY, {"MBOX message already in flight"})
            /\ pc' = [pc EXCEPT ![c] = "idle"]
            /\ UNCHANGED <<in_flight, lock>>
       ELSE /\ in_flight' = c
            /\ lock' = NULL
            /\ out' = Quiet
            /\ pc' = [pc EXCEPT ![c] = "send"]
    /\ answered' = FALSE
    /\ UNCHANGED <<base, irq_ok, callback, drv_data, poller, client,
                   hwVars, dt, nEv, mem, passVars>>

\* The test and set of mbox.in_flight, and the unlock of either branch.
EnqueueCheck(c) ==
    /\ pc[c] = "locked"
    /\ lock' = NULL
    /\ IF in_flight # NULL
       THEN /\ out' = Event(OPAL_BUSY, {"MBOX message already in flight"})
            /\ pc' = [pc EXCEPT ![c] = "idle"]
            /\ UNCHANGED in_flight
       ELSE /\ in_flight' = c
            /\ out' = Quiet
            /\ pc' = [pc EXCEPT ![c] = "send"]
    /\ answered' = FALSE
    /\ UNCHANGED <<base, irq_ok, callback, drv_data, poller, client,
                   hwVars, dt, nEv, mem, passVars>>

\* What bmc_mbox_send_message logs for the answer of lpc_ok().
LpcLogs(ok) == IF ok THEN {} ELSE {"LPC isn't ok"}

\* A send that gives up when lpc_ok() says no.
EnqueueSend_gives_up(c) ==
    /\ pc[c] = "send"
    /\ \E ok \in BOOLEAN :
          /\ out' = Event(NULL, LpcLogs(ok))
          /\ regs' = IF ok THEN bmc_mbox_send_message(regs, mem[c]) ELSE regs
          /\ pc' = [pc EXCEPT ![c] = IF ok THEN "ping" ELSE "idle"]
    /\ UNCHANGED <<mboxVars, irq, envVars, mem, passVars>>

\* bmc_mbox_send_message: the test of lpc_ok(), which only logs, and the
\* writes of the data registers.
EnqueueSend(c) ==
    /\ pc[c] = "send"
    /\ \E ok \in BOOLEAN : out' = Event(NULL, LpcLogs(ok))
    /\ regs' = bmc_mbox_send_message(regs, mem[c])
    /\ pc' = [pc EXCEPT ![c] = "ping"]
    /\ UNCHANGED <<mboxVars, irq, envVars, mem, passVars>>

\* bmc_mbox_send_message: the doorbell.
EnqueuePing(c) ==
    /\ pc[c] = "ping"
    /\ regs' = bmc_mbox_outb(regs, MBOX_CTRL_INT_SEND, MBOX_HOST_CTRL)
    /\ UNCHANGED irq
    /\ pc' = [pc EXCEPT ![c] = "sched"]
    /\ out' = Event(NULL, {"Sending BMC interrupt"})
    /\ UNCHANGED <<mboxVars, envVars, mem, passVars>>

\* schedule_timer and return 0.
EnqueueSched(c) ==
    /\ pc[c] = "sched"
    /\ poller' = schedule_timer(irq_ok)
    /\ pc' = [pc EXCEPT ![c] = "idle"]
    /\ out' = Event(OPAL_SUCCESS, {})
    /\ UNCHANGED <<base, irq_ok, callback, drv_data, lock, in_flight, client,
                   hwVars, envVars, mem, passVars>>

bmc_mbox_enqueue(c) ==
    \/ EnqueueCall(c)
    \/ EnqueueLock(c)
    \/ EnqueueCheck(c)
    \/ EnqueueSend(c)
    \/ EnqueuePing(c)
    \/ EnqueueSched(c)

(* ------------------------------------------------------------------ *)
(* mbox_poll, entered by the poller timer or by mbox_irq               *)
(* ------------------------------------------------------------------ *)
Other(d) == CHOOSE e \in Detectors : e # d

\* The pass d starts: it runs beside the other pass if that one is running.
Started(d) ==
    LET busy == pc[Other(d)] # "idle"
    IN  [e \in Detectors |-> IF busy THEN TRUE ELSE IF e = d THEN FALSE ELSE overlap[e]]

\* A poller that takes the driver back to polling when it runs.
TimerFire_back_to_polling ==
    /\ pc["timer"] = "idle"
    /\ poller # "off"
    /\ poller' = "off"
    /\ irq_ok' = FALSE
    /\ pc' = [pc EXCEPT !["timer"] = "rd_ctrl"]
    /\ overlap' = Started("timer")
    /\ out' = Quiet
    /\ UNCHANGED <<base, callback, drv_data, lock, in_flight, client,
                   hwVars, envVars, mem, msg>>

\* The timer subsystem runs the expired poller, which is then no longer
\* scheduled.
TimerFire ==
    /\ pc["timer"] = "idle"
    /\ poller # "off"
    /\ poller' = "off"
    /\ pc' = [pc EXCEPT !["timer"] = "rd_ctrl"]
    /\ overlap' = Started("timer")
    /\ out' = Quiet
    /\ UNCHANGED <<base, irq_ok, callback, drv_data, lock, in_flight, client,
                   hwVars, envVars, mem, msg>>

\* mbox_irq: the LPC bus delivers the latched interrupt to the registered
\* client.
mbox_irq ==
    /\ pc["irq"] = "idle"
    /\ client
    /\ irq
    /\ irq' = FALSE
    /\ irq_ok' = TRUE
    /\ pc' = [pc EXCEPT !["irq"] = "rd_ctrl"]
    /\ overlap' = Started("irq")
    /\ out' = Quiet
    /\ UNCHANGED <<base, callback, drv_data, lock, in_flight, poller, client,
                   regs, envVars, mem, msg>>

\* A pass that gives up the message in flight when it reads the response bit
\* clear (a timeout).
PollReadCtrl_timeout(d) ==
    /\ pc[d] = "rd_ctrl"
    /\ LET set == BitAnd(bmc_mbox_inb(regs, MBOX_HOST_CTRL), MBOX_CTRL_INT_STATUS) # 0
       IN  /\ pc' = [pc EXCEPT ![d] = IF set THEN "w1c_ctrl" ELSE "rd_status"]
           /\ in_flight' = IF set THEN in_flight ELSE NULL
           /\ answered' = IF set THEN answered ELSE FALSE
    /\ out' = Quiet
    /\ UNCHANGED <<base, irq_ok, callback, drv_data, lock, poller, client,
                   hwVars, dt, nEv, mem, passVars>>

\* if (bmc_mbox_inb(MBOX_HOST_CTRL) & MBOX_CTRL_INT_STATUS)
PollReadCtrl(d) ==
    /\ pc[d] = "rd_ctrl"
    /\ pc' = [pc EXCEPT ![d] =
                IF BitAnd(bmc_mbox_inb(regs, MBOX_HOST_CTRL), MBOX_CTRL_INT_STATUS) # 0
                THEN "w1c_ctrl" ELSE "rd_status"]
    /\ out' = Quiet
    /\ UNCHANGED <<mboxVars, hwVars, envVars, mem, passVars>>

\* bmc_mbox_outb(MBOX_CTRL_INT_STATUS, MBOX_HOST_CTRL)
PollAckCtrl(d) ==
    /\ pc[d] = "w1c_ctrl"
    /\ regs' = bmc_mbox_outb(regs, MBOX_CTRL_INT_STATUS, MBOX_HOST_CTRL)
    /\ UNCHANGED irq
    /\ pc' = [pc EXCEPT ![d] = "rd_in_flight"]
    /\ out' = Quiet
    /\ UNCHANGED <<mboxVars, envVars, mem, passVars>>

\* A pass that goes on to the callback with no message in flight.
PollReadInFlight_no_test(d) ==
    /\ pc[d] = "rd_in_flight"
    /\ out' = IF in_flight = NULL /\ callback # NULL THEN CallbackEvent ELSE Quiet
    /\ msg' = [msg EXCEPT ![d] = in_flight]
    /\ pc' = [pc EXCEPT ![d] = IF in_flight = NULL THEN "lock" ELSE "recv"]
    /\ UNCHANGED overlap
    /\ UNCHANGED <<mboxVars, hwVars, envVars, mem>>

\* msg = mbox.in_flight, read without the lock; with no message the pass
\* logs and returns here, without the attention check and without
\* scheduling the timer.
PollReadInFlight(d) ==
    /\ pc[d] = "rd_in_flight"
    /\ IF in_flight = NULL
       THEN /\ out' = Event(NULL, {"Couldn't find the message!!"})
            /\ pc' = [pc EXCEPT ![d] = "idle"]
            /\ overlap' = [overlap EXCEPT ![d] = FALSE]
            /\ UNCHANGED msg
       ELSE /\ out' = Quiet
            /\ msg' = [msg EXCEPT ![d] = in_flight]
            /\ pc' = [pc EXCEPT ![d] = "recv"]
            /\ UNCHANGED overlap
    /\ UNCHANGED <<mboxVars, hwVars, envVars, mem>>

\* bmc_mbox_recv_message(msg): the reads of the data registers.
PollRecv(d) ==
    /\ pc[d] = "recv"
    /\ mem' = [mem EXCEPT ![msg[d]] = bmc_mbox_recv_message(mem[msg[d]], regs)]
    /\ pc' = [pc EXCEPT ![d] = "callback"]
    /\ out' = Quiet
    /\ UNCHANGED <<mboxVars, hwVars, envVars, passVars>>

\* A pass that returns when it finds no callback.
PollCallback_returns(d) ==
    /\ pc[d] = "callback"
    /\ IF callback # NULL
       THEN /\ out' = CallbackEvent
            /\ pc' = [pc EXCEPT ![d] = "lock"]
            /\ UNCHANGED <<msg, overlap>>
       ELSE /\ out' = Event(NULL, {"Detected NULL callback for mbox message"})
            /\ pc' = [pc EXCEPT ![d] = "idle"]
            /\ msg' = [msg EXCEPT ![d] = NULL]
            /\ overlap' = [overlap EXCEPT ![d] = FALSE]
    /\ UNCHANGED <<mboxVars, hwVars, envVars, mem>>

\* mbox.callback(msg, mbox.drv_data), or the log of its absence.
PollCallback(d) ==
    /\ pc[d] = "callback"
    /\ out' = IF callback # NULL
              THEN CallbackEvent
              ELSE Event(NULL, {"Detected NULL callback for mbox message"})
    /\ pc' = [pc EXCEPT ![d] = "lock"]
    /\ UNCHANGED <<mboxVars, hwVars, envVars, mem, msg, overlap>>

\* lock(&mbox.lock)
PollLock(d) ==
    /\ pc[d] = "lock"
    /\ lock = NULL
    /\ lock' = d
    /\ pc' = [pc EXCEPT ![d] = "locked"]
    /\ out' = Quiet
    /\ UNCHANGED <<base, irq_ok, callback, drv_data, in_flight, poller, client,
                   hwVars, envVars, mem, passVars>>

\* A pass that unlocks without emptying mbox.in_flight.
PollClear_keeps_message(d) ==
    /\ pc[d] = "locked"
    /\ lock' = NULL
    /\ pc' = [pc EXCEPT ![d] = "rd_status"]
    /\ msg' = [msg EXCEPT ![d] = NULL]
    /\ out' = Quiet
    /\ UNCHANGED <<base, irq_ok, callback, drv_data, in_flight, poller, client,
                   hwVars, envVars, mem, overlap>>

\* mbox.in_flight = NULL; unlock(&mbox.lock)
PollClear(d) ==
    /\ pc[d] = "locked"
    /\ in_flight' = NULL
    /\ lock' = NULL
    /\ pc' = [pc EXCEPT ![d] = "rd_status"]
    /\ msg' = [msg EXCEPT ![d] = NULL]
    /\ answered' = FALSE
    /\ out' = Quiet
    /\ UNCHANGED <<base, irq_ok, callback, drv_data, poller, client,
                   hwVars, dt, nEv, mem, overlap>>

\* if (bmc_mbox_inb(MBOX_STATUS_1) & MBOX_STATUS_ATTN)
PollReadStatus(d) ==
    /\ pc[d] = "rd_status"
    /\ pc' = [pc EXCEPT ![d] =
                IF BitAnd(bmc_mbox_inb(regs, MBOX_STATUS_1), MBOX_STATUS_ATTN) # 0
                THEN "w1c_status" ELSE "sched"]
    /\ out' = Quiet
    /\ UNCHANGED <<mboxVars, hwVars, envVars, mem, passVars>>

\* What the attention branch logs for an action byte.
AttnLogs(action) ==
    (IF BitAnd(action, BMC_RESET) # 0 THEN {"BMC reset detected"} ELSE {})
    \cup (IF BitClear(action, BMC_RESET) # 0
          THEN {"Got a status bit set that don't know about"} ELSE {})

\* An attention branch that gives up the message in flight on a BMC reset.
PollAttention_drops_message(d) ==
    /\ pc[d] = "w1c_status"
    /\ regs' = bmc_mbox_outb(regs, MBOX_STATUS_ATTN, MBOX_STATUS_1)
    /\ UNCHANGED irq
    /\ \E action \in ActionBytes :
          /\ out' = Event(NULL, AttnLogs(action))
          /\ in_flight' = IF BitAnd(action, BMC_RESET) # 0 THEN NULL ELSE in_flight
    /\ pc' = [pc EXCEPT ![d] = "sched"]
    /\ UNCHANGED <<base, irq_ok, callback, drv_data, lock, poller, client,
                   envVars, mem, passVars>>

\* bmc_mbox_outb(MBOX_STATUS_ATTN, MBOX_STATUS_1), then
\* action = bmc_mbox_inb(MBOX_FLAG_REG) and what is logged for it. The flag
\* register is the BMC's: the read yields the action byte the BMC has left.
PollAttention(d) ==
    /\ pc[d] = "w1c_status"
    /\ regs' = bmc_mbox_outb(regs, MBOX_STATUS_ATTN, MBOX_STATUS_1)
    /\ UNCHANGED irq
    /\ \E action \in ActionBytes : out' = Event(NULL, AttnLogs(action))
    /\ pc' = [pc EXCEPT ![d] = "sched"]
    /\ UNCHANGED <<mboxVars, envVars, mem, passVars>>

\* schedule_timer at the end of the pass, and the return.
PollSched(d) ==
    /\ pc[d] = "sched"
    /\ poller' = schedule_timer(irq_ok)
    /\ pc' = [pc EXCEPT ![d] = "idle"]
    /\ overlap' = [overlap EXCEPT ![d] = FALSE]
    /\ out' = Quiet
    /\ UNCHANGED <<base, irq_ok, callback, drv_data, lock, in_flight, client,
                   hwVars, envVars, mem, msg>>

mbox_poll(d) ==
    \/ PollReadCtrl(d)
    \/ PollAckCtrl(d)
    \/ PollReadInFlight(d)
    \/ PollRecv(d)
    \/ PollCallback(d)
    \/ PollLock(d)
    \/ PollClear(d)
    \/ PollReadStatus(d)
    \/ PollAttention(d)
    \/ PollSched(d)

(* ------------------------------------------------------------------ *)
(* The BMC                                                             *)
(* ------------------------------------------------------------------ *)
\* The BMC puts a response into the data registers and sets the
\* response-registered bit of the host control register. It does so for a
\* doorbell of the host or unasked, but not over a response the host has
\* not acknowledged.
BMCRespond ==
    /\ nEv < MaxEvents
    /\ BitAnd(regs[MBOX_HOST_CTRL], MBOX_CTRL_INT_STATUS) = 0
    /\ nEv' = nEv + 1
    /\ \E m \in Responses :
          regs' = [r \in Regs |->
                     IF r \in DataRegs THEN m[r]
                     ELSE IF r = MBOX_HOST_CTRL
                     THEN regs[r] + MBOX_CTRL_INT_STATUS
                     ELSE regs[r]]
    /\ irq' = TRUE
    /\ answered' = (in_flight # NULL)
    /\ out' = Quiet
    /\ UNCHANGED <<mboxVars, dt, mem, pc, passVars>>

\* The BMC sets the attention bit of status register 1.
BMCAttention ==
    /\ nEv < MaxEvents
    /\ nEv' = nEv + 1
    /\ BitAnd(regs[MBOX_STATUS_1], MBOX_STATUS_ATTN) = 0
    /\ regs' = [regs EXCEPT ![MBOX_STATUS_1] = regs[MBOX_STATUS_1] + MBOX_STATUS_ATTN]
    /\ irq' = TRUE
    /\ out' = Quiet
    /\ UNCHANGED <<mboxVars, dt, answered, mem, pc, passVars>>

Next ==
    \/ mbox_init
    \/ bmc_mbox_register_callback
    \/ \E c \in Callers : bmc_mbox_enqueue(c)
    \/ TimerFire
    \/ mbox_irq
    \/ \E d \in Detectors : mbox_poll(d)
    \/ BMCRespond
    \/ BMCAttention

(* ------------------------------------------------------------------ *)
(* The codec alone: a message is sent, then the registers are received  *)
(* into another buffer                                                  *)
(* ------------------------------------------------------------------ *)
\* The bytes the messages of the codec check are made of.
CodecBytes == {0, 1, 128, 255}
CodecMsgs == [DataRegs -> CodecBytes]

\* The driver is set up, the message of c1 is in flight and about to be
\* sent; a pass stands before its receive loop with the buffer of c2 as its
\* message. Both buffers and the data registers hold anything.
InitCodec ==
    /\ dt = "ok"
    /\ base = IOBase
    /\ irq_ok = FALSE
    /\ callback = NULL
    /\ drv_data = NULL
    /\ lock = NULL
    /\ in_flight = "c1"
    /\ poller = "off"
    /\ client = TRUE
    /\ \E junk \in CodecBytes :
          regs = [r \in Regs |-> IF r \in DataRegs THEN junk ELSE 0]
    /\ irq = FALSE
    /\ mem \in [Callers -> CodecMsgs]
    /\ pc = [x \in Contexts |->
               IF x = "c1" THEN "send" ELSE IF x = "timer" THEN "recv" ELSE "idle"]
    /\ msg = [d \in Detectors |-> IF d = "timer" THEN "c2" ELSE NULL]
    /\ overlap = [d \in Detectors |-> FALSE]
    /\ out = Quiet
    /\ nEv = 0
    /\ answered = FALSE

\* The receive loop runs right after the send loop.
RecvAfterSend ==
    /\ pc["c1"] = "ping"
    /\ PollRecv("timer")

NextCodec ==
    \/ EnqueueSend("c1")
    \/ RecvAfterSend

SpecCodec == InitCodec /\ [][NextCodec]_vars

Spec == Init /\ [][Next]_vars

(* ------------------------------------------------------------------ *)
(* The exchanges alone, under the scheduling the code relies on         *)
(* ------------------------------------------------------------------ *)
\* The device tree is good, the BMC raises no attention and nobody
\* registers a callback: the callback step of a pass logs the absence.
InitLive == Init /\ dt = "ok"

\* The steps of mbox_poll with the attention bit never set.
PollLive(d) ==
    \/ PollReadCtrl(d)
    \/ PollAckCtrl(d)
    \/ PollReadInFlight(d)
    \/ PollRecv(d)
    \/ PollCallback(d)
    \/ PollLock(d)
    \/ PollClear(d)
    \/ PollReadStatus(d)
    \/ PollSched(d)

NextLive ==
    \/ mbox_init
    \/ \E c \in Callers : bmc_mbox_enqueue(c)
    \/ TimerFire
    \/ mbox_irq
    \/ \E d \in Detectors : PollLive(d)
    \/ BMCRespond

\* What the scheduling of the code guarantees: a caller inside
\* bmc_mbox_enqueue and a pass inside mbox_poll go on running (a lock is
\* held for one step only), and the timer subsystem runs a scheduled
\* poller, on the poll cadence or after the poll interval. Calls of
\* bmc_mbox_enqueue, answers of the BMC and the delivery of interrupts are
\* not guaranteed.
Fairness ==
    /\ WF_vars(TimerFire)
    /\ \A c \in Callers :
          WF_vars(EnqueueLock(c) \/ EnqueueCheck(c) \/ EnqueueSend(c)
                  \/ EnqueuePing(c) \/ EnqueueSched(c))
    /\ \A d \in Detectors : WF_vars(PollLive(d))

SpecLive == InitLive /\ [][NextLive]_vars /\ Fairness

TypeOK ==
    /\ base \in {0, IOBase}
    /\ in_flight \in Callers \cup {NULL}
    /\ lock \in Contexts \cup {NULL}
    /\ poller \in {"off", "TIMER_POLL", "MBOX_DEFAULT_POLL_MS"}
    /\ \A c \in Callers : mem[c] \in [DataRegs -> Bytes]

(* ------------------------------------------------------------------ *)
(* Vocabulary of the properties                                        *)
(* ------------------------------------------------------------------ *)
\* The response-registered bit and the attention bit, as the hardware
\* holds them.
RespBit == BitAnd(regs[MBOX_HOST_CTRL], MBOX_CTRL_INT_STATUS) # 0
AttnBit == BitAnd(regs[MBOX_STATUS_1], MBOX_STATUS_ATTN) # 0

\* The data registers, as a message.
DataOf(r) == [i \in DataRegs |-> r[i]]

\* Positions of a caller before its message is in mbox.in_flight, and after.
BeforeSlot == {"idle", "lock", "locked"}
Sending == {"send", "ping", "sched"}

\* Positions of a pass in the response branch and in the attention branch.
RespPart == {"w1c_ctrl", "rd_in_flight", "recv", "callback", "lock", "locked"}
AttnPart == {"rd_status", "w1c_status", "sched"}

(* ------------------------------------------------------------------ *)
(* C1                                                                  *)
(* ------------------------------------------------------------------ *)
\* C1: the slot holds at most one message: no step of bmc_mbox_enqueue
\* replaces or empties a message that is in mbox.in_flight, and the slot is
\* filled only from empty. A caller that finds the slot taken at its test
\* returns OPAL_BUSY at once, with mbox.in_flight still the original message
\* and without a write to any register (no data register, no doorbell) on
\* its whole way from the call.
C1_SingleInFlight ==
    [][/\ \A c \in Callers :
            /\ (pc'[c] # pc[c] /\ in_flight # NULL) => in_flight' = in_flight
            /\ (pc[c] = "locked" /\ pc'[c] # "locked" /\ in_flight # NULL) =>
                  /\ out'.code = OPAL_BUSY
                  /\ pc'[c] = "idle"
                  /\ in_flight' = in_flight
            /\ (pc[c] \in BeforeSlot /\ pc'[c] # pc[c]) =>
                  /\ regs' = regs
                  /\ poller' = poller
                  /\ mem' = mem \/ pc[c] = "idle"
       /\ (in_flight' # in_flight /\ in_flight' # NULL) =>
            /\ in_flight = NULL
            /\ pc[in_flight'] = "locked"
      ]_vars

\* C1 witness: a caller has just been refused with OPAL_BUSY while the
\* other caller, whose message is in flight, is still sending it.
C1_Witness ==
    /\ out.code = OPAL_BUSY
    /\ in_flight # NULL
    /\ pc[in_flight] \in Sending

(* ------------------------------------------------------------------ *)
(* C2                                                                  *)
(* ------------------------------------------------------------------ *)
\* C2: while mbox.base is unset, a call of bmc_mbox_enqueue returns
\* OPAL_WRONG_STATE at once: no context leaves its position, no register is
\* written, mbox.in_flight stays empty and the poller stays unscheduled.
C2_NotInitialized ==
    [][base = 0 =>
         /\ pc' = pc
         /\ in_flight = NULL /\ in_flight' = NULL
         /\ poller = "off" /\ poller' = "off"
         /\ lock' = lock
         /\ (out'.code = OPAL_WRONG_STATE => regs' = regs /\ irq' = irq)
         /\ (nEv' # nEv /\ regs' = regs) => out'.code = OPAL_WRONG_STATE
      ]_vars

\* C2 witness: a call has returned OPAL_WRONG_STATE after mbox_init gave up
\* on the device tree.
C2_Witness ==
    /\ out.code = OPAL_WRONG_STATE
    /\ base = 0
    /\ dt # "ok"

(* ------------------------------------------------------------------ *)
(* C3                                                                  *)
(* ------------------------------------------------------------------ *)
\* C3: the callback is invoked only in the callback step of a pass, which a
\* pass reaches only through the acknowledge of a response bit it read set
\* and takes once; with a callback registered that step invokes it, and in
\* a pass that runs beside no other pass the message it carries is the one
\* in mbox.in_flight. The acknowledge leaves the response bit clear, the
\* clear step of the pass leaves mbox.in_flight empty, and a pass that reads
\* the response bit clear goes to the attention check, from where no
\* callback step is reached.
C3_OneCallbackPerResponse ==
    [][/\ out'.cb => \E d \in Detectors : pc[d] = "callback" /\ pc'[d] = "lock"
       /\ \A d \in Detectors :
            /\ (pc[d] = "callback" /\ pc'[d] # pc[d]) =>
                  /\ pc'[d] = "lock"
                  /\ out'.cb <=> callback # NULL
                  /\ msg[d] # NULL
                  /\ ~overlap[d] => msg[d] = in_flight
            /\ (pc[d] # "callback" /\ pc'[d] = "callback") => pc[d] = "recv"
            /\ (pc[d] # "recv" /\ pc'[d] = "recv") =>
                  pc[d] = "rd_in_flight" /\ in_flight # NULL /\ msg'[d] = in_flight
            /\ (pc[d] # "rd_in_flight" /\ pc'[d] = "rd_in_flight") =>
                  pc[d] = "w1c_ctrl" /\ ~RespBit'
            /\ (pc[d] # "w1c_ctrl" /\ pc'[d] = "w1c_ctrl") =>
                  pc[d] = "rd_ctrl" /\ RespBit
            /\ (pc[d] = "rd_ctrl" /\ pc'[d] # pc[d] /\ ~RespBit) =>
                  pc'[d] = "rd_status" /\ ~out'.cb
            /\ (pc[d] \in AttnPart /\ pc'[d] # pc[d]) =>
                  pc'[d] \in AttnPart \cup {"idle"}
            /\ (pc[d] = "locked" /\ pc'[d] # pc[d]) =>
                  /\ in_flight' = NULL
                  /\ pc'[d] = "rd_status"
                  /\ lock' = NULL
      ]_vars

\* C3 witness: a pass that ran alone has invoked the callback with the
\* message in flight, the response bit is clear, and the other way into
\* mbox_poll has not started.
C3_Witness ==
    \E d \in Detectors :
       /\ out.cb
       /\ pc[d] = "lock"
       /\ ~overlap[d]
       /\ msg[d] = in_flight
       /\ answered
       /\ ~RespBit

\* C3 for every pass, beside another pass or not: every invocation of the
\* callback carries the message that is in mbox.in_flight, and that message
\* has not been handed to the callback by the other pass already.
C3_ExactlyOneCallback ==
    [][\A d \in Detectors :
         (out'.cb /\ pc[d] = "callback" /\ pc'[d] = "lock") =>
            /\ in_flight = msg[d]
            /\ ~(msg[Other(d)] = msg[d] /\ pc[Other(d)] \in {"lock", "locked"})
      ]_vars

(* ------------------------------------------------------------------ *)
(* C4                                                                  *)
(* ------------------------------------------------------------------ *)
\* C4: the receive step of a pass makes every byte i of its message the
\* value of data register i at that step, whatever the buffer held (the
\* bytes sent), and touches no other buffer; in a pass that runs beside no
\* other pass the buffer is not written between the receive step and the
\* callback, so the callback is handed those bytes. The clear step of the
\* pass empties mbox.in_flight, and a caller that then finds it empty at its
\* test takes the slot and returns OPAL_SUCCESS, not OPAL_BUSY.
C4_ResponseBytesDelivered ==
    [][/\ \A d \in Detectors :
            /\ (pc[d] = "recv" /\ pc'[d] # pc[d]) =>
                  /\ pc'[d] = "callback"
                  /\ \A i \in DataRegs : mem'[msg[d]][i] = regs[i]
                  /\ \A c \in Callers \ {msg[d]} : mem'[c] = mem[c]
                  /\ msg'[d] = msg[d]
            /\ (pc[d] = "callback" /\ ~overlap[d]) =>
                  /\ mem'[msg[d]] = mem[msg[d]]
                  /\ msg'[d] = msg[d]
            /\ (pc[d] = "locked" /\ pc'[d] # pc[d]) => in_flight' = NULL
       /\ \A c \in Callers :
            /\ (pc[c] = "locked" /\ pc'[c] # pc[c] /\ in_flight = NULL) =>
                  in_flight' = c /\ pc'[c] = "send"
            /\ (pc[c] \in Sending /\ pc'[c] # pc[c]) =>
                  /\ pc'[c] = (IF pc[c] = "send" THEN "ping"
                               ELSE IF pc[c] = "ping" THEN "sched" ELSE "idle")
                  /\ pc'[c] = "idle" => out'.code = OPAL_SUCCESS
                  /\ out'.code # OPAL_BUSY
      ]_vars

\* C4 witness: the message of one caller came back with the response of the
\* BMC, which is not what was sent, and the enqueue of the other caller
\* after it has returned OPAL_SUCCESS.
C4_Witness ==
    \E c \in Callers :
       /\ mem[c] = Response
       /\ mem[c] # Request
       /\ in_flight \in Callers \ {c}
       /\ out.code = OPAL_SUCCESS
       /\ \A d \in Detectors : pc[d] = "idle"

(* ------------------------------------------------------------------ *)
(* C5                                                                  *)
(* ------------------------------------------------------------------ *)
\* C5: a pass that has found the response bit set and then finds
\* mbox.in_flight empty logs the violation and returns: it invokes no
\* callback, leaves mbox.in_flight empty, the mode, the callback and its
\* data, the lock and the callers' buffers as they are, and the driver takes
\* the next message: a caller that finds the slot empty at its test puts
\* its message there and goes on to send it.
C5_ResponseWithoutMessage ==
    [][/\ \A d \in Detectors :
            (pc[d] = "rd_in_flight" /\ pc'[d] # pc[d] /\ in_flight = NULL) =>
               /\ out' = Event(NULL, {"Couldn't find the message!!"})
               /\ ~out'.cb
               /\ pc'[d] = "idle"
               /\ in_flight' = NULL
               /\ <<base, irq_ok, callback, drv_data, client>>' =
                     <<base, irq_ok, callback, drv_data, client>>
               /\ lock' = lock /\ lock # d
               /\ mem' = mem
               /\ regs' = regs
       /\ \A c \in Callers :
            (pc[c] = "locked" /\ pc'[c] # pc[c] /\ in_flight = NULL) =>
               /\ in_flight' = c
               /\ pc'[c] = "send"
               /\ out'.code # OPAL_BUSY
      ]_vars

\* C5 witness: the violation has just been logged.
C5_Witness ==
    /\ out.logs = {"Couldn't find the message!!"}
    /\ in_flight = NULL
    /\ base # 0

(* ------------------------------------------------------------------ *)
(* C6                                                                  *)
(* ------------------------------------------------------------------ *)
\* C6: mbox.irq_ok is false at the start, becomes true in the step that
\* enters mbox_irq (the first interrupt; every interrupt leaves it true),
\* and no step makes it false again, a repeated mbox_init included.
C6_ModeOneWay ==
    /\ ~irq_ok
    /\ [][/\ irq_ok => irq_ok'
          /\ (~irq_ok /\ irq_ok') => (pc["irq"] = "idle" /\ pc'["irq"] = "rd_ctrl")
          /\ (pc["irq"] = "idle" /\ pc'["irq"] # "idle") => irq_ok'
         ]_vars

\* C6 witness: the interrupt pass is over, the driver is in interrupt mode
\* and the next message is in flight.
C6_Witness ==
    /\ irq_ok
    /\ pc["irq"] = "idle"
    /\ pc["timer"] # "idle"
    /\ in_flight # NULL

(* ------------------------------------------------------------------ *)
(* C7                                                                  *)
(* ------------------------------------------------------------------ *)
\* C7: a pass that reads the response bit clear goes to the attention check
\* and from there to its end; on the attention bit it clears that bit and
\* logs for the action byte, whatever the byte is. No step of that part
\* invokes the callback or changes mbox.in_flight, the mode, the host
\* control register (the response bit) or a buffer.
C7_AttentionOnly ==
    [][\A d \in Detectors :
         /\ (pc[d] = "rd_ctrl" /\ pc'[d] # pc[d] /\ ~RespBit) => pc'[d] = "rd_status"
         /\ (pc[d] \in AttnPart /\ pc'[d] # pc[d]) =>
               /\ pc'[d] \in AttnPart \cup {"idle"}
               /\ ~out'.cb
               /\ in_flight' = in_flight
               /\ irq_ok' = irq_ok
               /\ regs'[MBOX_HOST_CTRL] = regs[MBOX_HOST_CTRL]
               /\ DataOf(regs') = DataOf(regs)
               /\ mem' = mem
         /\ (pc[d] = "rd_status" /\ pc'[d] # pc[d]) =>
               pc'[d] = (IF AttnBit THEN "w1c_status" ELSE "sched")
         /\ (pc[d] = "w1c_status" /\ pc'[d] # pc[d]) =>
               /\ ~AttnBit'
               /\ out'.logs \in {AttnLogs(a) : a \in ActionBytes}
               /\ pc'[d] = "sched"
      ]_vars

\* C7 witness: one message was enqueued and the BMC raised attention once,
\* without a response; the pass has cleared the bit and logged the reset,
\* and the message is still in flight.
C7_Witness ==
    /\ nEv = 2
    /\ \E d \in Detectors : pc[d] = "sched"
    /\ out.logs = {"BMC reset detected"}
    /\ in_flight # NULL
    /\ ~AttnBit

(* ------------------------------------------------------------------ *)
(* C8                                                                  *)
(* ------------------------------------------------------------------ *)
\* C8: after the send loop has written a message m, data register i holds
\* byte i of m, and the receive loop run next, into another buffer that
\* held anything, leaves that buffer equal to m at every byte.
C8_RoundTrip ==
    /\ pc["c1"] = "ping" => \A i \in DataRegs : regs[i] = mem["c1"][i]
    /\ pc["timer"] = "callback" => \A i \in DataRegs : mem["c2"][i] = mem["c1"][i]

\* C8 witness: a message with a high byte and a low byte has been sent and
\* then received into the other buffer.
C8_Witness ==
    /\ pc["timer"] = "callback"
    /\ mem["c1"][0] = 255
    /\ mem["c1"][NumDataRegs - 1] = 1
    /\ mem["c2"] = mem["c1"]
    /\ \A i \in DataRegs : regs[i] = mem["c1"][i]

(* ------------------------------------------------------------------ *)
(* C9                                                                  *)
(* ------------------------------------------------------------------ *)
\* C9: once mbox.base is set it never changes, and a call of mbox_init
\* then only logs the duplicate call: mbox.in_flight, the callback and its
\* data, the mode, the lock, the poller, the registers, the buffers and
\* every context's position stay as they are.
C9_InitOnce ==
    [][/\ base # 0 =>
            /\ base' = base
            /\ out'.code \notin {"enabled", "abort"}
       /\ out'.code = "duplicate" =>
            /\ base # 0
            /\ <<base, irq_ok, callback, drv_data, lock, in_flight, poller, client>>' =
                  <<base, irq_ok, callback, drv_data, lock, in_flight, poller, client>>
            /\ <<regs, irq, mem, pc, msg>>' = <<regs, irq, mem, pc, msg>>
       /\ out'.code = "enabled" => base = 0 /\ base' # 0
      ]_vars

\* C9 witness: mbox_init was called again with a message in flight, a
\* callback registered and the driver in interrupt mode.
C9_Witness ==
    /\ out.code = "duplicate"
    /\ in_flight # NULL
    /\ callback # NULL
    /\ irq_ok

(* ------------------------------------------------------------------ *)
(* C10                                                                 *)
(* ------------------------------------------------------------------ *)
\* C10 as stated: mbox.in_flight goes from a message to empty only if the
\* BMC has set the response bit since that message was put there.
C10_ClearedOnlyAfterAnswer ==
    [][(in_flight # NULL /\ in_flight' = NULL) => answered]_vars

\* C10 as amended: a caller at its test leaves it in that step, with
\* OPAL_BUSY when mbox.in_flight holds a message and with the slot
\* otherwise, and no step of a caller waits for the slot. mbox.in_flight
\* goes from a message to empty only in the clear step of a pass, and a pass
\* is in its response branch only after it read the response bit set,
\* whenever the BMC set it; no other step (no timeout, retry, cancel,
\* enqueue or repeated mbox_init) empties it.
C10_StuckUntilResponseSeen ==
    /\ [](\A c \in Callers : pc[c] = "locked" => ENABLED EnqueueCheck(c))
    /\ [][/\ \A c \in Callers :
               (pc[c] = "locked" /\ pc'[c] # pc[c]) =>
                  IF in_flight # NULL
                  THEN out'.code = OPAL_BUSY /\ pc'[c] = "idle" /\ in_flight' = in_flight
                  ELSE in_flight' = c /\ pc'[c] = "send"
          /\ (in_flight # NULL /\ in_flight' = NULL) =>
                \E d \in Detectors : pc[d] = "locked" /\ pc'[d] = "rd_status"
          /\ \A d \in Detectors :
               /\ (pc[d] \notin RespPart /\ pc'[d] \in RespPart) =>
                     pc[d] = "rd_ctrl" /\ RespBit
               /\ (pc[d] # "locked" /\ pc'[d] = "locked") => pc[d] = "lock"
               /\ (pc[d] # "lock" /\ pc'[d] = "lock") => pc[d] = "callback"
         ]_vars

\* C10 witness: the BMC has not answered the message in flight, a pass has
\* run and the poller is scheduled again, and a later enqueue has just
\* returned OPAL_BUSY.
C10_Witness ==
    /\ in_flight # NULL
    /\ ~answered
    /\ pc[in_flight] = "idle"
    /\ out.code = OPAL_BUSY
    /\ irq_ok
    /\ poller = "TIMER_POLL"

(* ------------------------------------------------------------------ *)
(* C11                                                                 *)
(* ------------------------------------------------------------------ *)
\* C11: every pass of mbox_poll ends with the poller scheduled: the step
\* in which a pass returns leaves mbox.poller scheduled, whatever the pass
\* found.
C11_EveryPassRearms ==
    [][\A d \in Detectors :
         (pc[d] # "idle" /\ pc'[d] = "idle") => poller' # "off"
      ]_vars

(* ------------------------------------------------------------------ *)
(* C12                                                                 *)
(* ------------------------------------------------------------------ *)
\* C12: every pass of mbox_poll makes both checks: a pass that read the
\* response bit set acknowledges it, and every pass, with or without a
\* message in flight, returns only after it has read status register 1 and
\* acknowledged the attention bit it read set.
C12_BothChecksEveryPass ==
    [][\A d \in Detectors :
         /\ (pc[d] = "rd_ctrl" /\ pc'[d] # pc[d] /\ RespBit) => pc'[d] = "w1c_ctrl"
         /\ (pc[d] = "w1c_ctrl" /\ pc'[d] # pc[d]) => ~RespBit'
         /\ (pc[d] = "rd_status" /\ pc'[d] # pc[d] /\ AttnBit) => pc'[d] = "w1c_status"
         /\ (pc[d] = "w1c_status" /\ pc'[d] # pc[d]) => ~AttnBit'
         /\ (pc[d] # "idle" /\ pc'[d] = "idle") => pc[d] = "sched"
         /\ (pc[d] # "sched" /\ pc'[d] = "sched") => pc[d] \in {"rd_status", "w1c_status"}
      ]_vars

(* ------------------------------------------------------------------ *)
(* C13                                                                 *)
(* ------------------------------------------------------------------ *)
\* C13: the call of mbox_init that sets the driver up leaves the poller
\* scheduled, so that a first pass of mbox_poll runs without an enqueue and
\* without an interrupt.
C13_InitArmsPoller ==
    [][out'.code = "enabled" => poller' # "off"]_vars

(* ------------------------------------------------------------------ *)
(* C14                                                                 *)
(* ------------------------------------------------------------------ *)
\* C14: when a message is in mbox.in_flight and the BMC has set the
\* response bit since it was put there, then, in either mode and across a
\* change of mode, mbox.in_flight becomes empty and, unless a pass already
\* holds the message, a pass of mbox_poll reaches its callback step with
\* that message.
C14_ResponseCompletes ==
    \A c \in Callers :
       /\ (in_flight = c /\ answered) ~> (in_flight = NULL)
       /\ (in_flight = c /\ answered /\ \A d \in Detectors : msg[d] # c)
             ~> (\E d \in Detectors : msg[d] = c /\ pc[d] = "lock")

(* ------------------------------------------------------------------ *)
(* C15                                                                 *)
(* ------------------------------------------------------------------ *)
\* C15: a context holds mbox.lock exactly between its lock step and the
\* step after it, which is the test and set of mbox.in_flight in
\* bmc_mbox_enqueue (the busy path included) or the clear in mbox_poll; that
\* step is always possible, releases the lock, reads and writes no register
\* and invokes no callback. Every step that writes a register or invokes
\* the callback is taken by a context that does not hold the lock.
C15_LockOnlyAroundSlot ==
    /\ [](\A x \in Contexts :
            /\ lock = x <=> pc[x] = "locked"
            /\ (x \in Callers /\ pc[x] = "locked") => ENABLED EnqueueCheck(x)
            /\ (x \in Detectors /\ pc[x] = "locked") => ENABLED PollClear(x))
    /\ [][\A x \in Contexts :
            /\ (pc[x] = "locked" /\ pc'[x] # pc[x]) =>
                  /\ lock = x /\ lock' = NULL
                  /\ regs' = regs
                  /\ ~out'.cb
                  /\ mem' = mem
                  /\ pc'[x] \in {"idle", "send", "rd_status"}
            /\ (pc'[x] # pc[x] /\ (regs' # regs \/ out'.cb \/ mem' # mem)) => lock # x
            /\ (pc[x] # "locked" /\ pc'[x] = "locked") => pc[x] = "lock" /\ lock = NULL
         ]_vars

\* C15 witness: a pass waits at its lock step for the lock, which a caller
\* holds that is about to return OPAL_BUSY, while the other pass is in the
\* middle of its register accesses.
C15_Witness ==
    /\ lock \in Callers
    /\ in_flight \notin {NULL, lock}
    /\ \E d \in Detectors : pc[d] = "lock" /\ pc[Other(d)] = "w1c_ctrl"

(* ------------------------------------------------------------------ *)
(* C16                                                                 *)
(* ------------------------------------------------------------------ *)
\* C16: the clear step of a pass removes from mbox.in_flight only the
\* message the pass has taken from it and handed on: whatever callers and
\* passes do in between, a message that is in mbox.in_flight at the clear
\* step of a pass is the message of that pass, so no enqueued message is
\* removed by a pass that did not deliver it.
C16_ClearsOnlyDelivered ==
    [][\A d \in Detectors :
         (pc[d] = "locked" /\ pc'[d] # pc[d] /\ in_flight # NULL) =>
            in_flight = msg[d]
      ]_vars

(* ------------------------------------------------------------------ *)
(* C17                                                                 *)
(* ------------------------------------------------------------------ *)
\* C17: when the pass from mbox_irq and the pass from the poller run at the
\* same time, at most one of them receives the registers into a message
\* buffer and at most one of them takes the callback step with it: a pass
\* does neither with a message that the other pass has already treated so
\* and still holds.
C17_OncePerExchange ==
    [][\A d \in Detectors :
         /\ (pc[d] = "recv" /\ pc'[d] # pc[d]) =>
               ~(msg[Other(d)] = msg[d] /\ pc[Other(d)] \in {"callback", "lock", "locked"})
         /\ (pc[d] = "callback" /\ pc'[d] # pc[d]) =>
               ~(msg[Other(d)] = msg[d] /\ pc[Other(d)] \in {"lock", "locked"})
      ]_vars

(* ------------------------------------------------------------------ *)
(* C18                                                                 *)
(* ------------------------------------------------------------------ *)
\* C18: a call of bmc_mbox_enqueue goes through its steps in one order:
\* the test that puts the message into mbox.in_flight (no register written
\* so far), the writes of all data registers with the bytes of the message,
\* whatever lpc_ok() says, the doorbell, the scheduling of the poller and
\* the return of OPAL_SUCCESS. The doorbell is rung only by the step after
\* the data registers were written, once in a call, and a call that returns
\* OPAL_BUSY or OPAL_WRONG_STATE returns before it.
C18_SendOrder ==
    [][/\ \A c \in Callers :
            /\ pc'[c] # pc[c] =>
                  <<pc[c], pc'[c]>> \in {<<"idle", "lock">>, <<"lock", "locked">>,
                                        <<"locked", "idle">>, <<"locked", "send">>,
                                        <<"send", "ping">>, <<"ping", "sched">>,
                                        <<"sched", "idle">>}
            /\ (pc[c] = "locked" /\ pc'[c] = "send") => in_flight' = c /\ regs' = regs
            /\ (pc[c] = "locked" /\ pc'[c] = "idle") => out'.code = OPAL_BUSY
            /\ (pc[c] = "send" /\ pc'[c] # pc[c]) =>
                  /\ \A i \in DataRegs : regs'[i] = mem[c][i]
                  /\ \A x \in ControlRegs : regs'[x] = regs[x]
                  /\ out'.logs \in {LpcLogs(TRUE), LpcLogs(FALSE)}
            /\ (pc[c] = "ping" /\ pc'[c] # pc[c]) =>
                  /\ out'.logs = {"Sending BMC interrupt"}
                  /\ DataOf(regs') = DataOf(regs)
                  /\ poller' = poller
            /\ (pc[c] = "sched" /\ pc'[c] # pc[c]) =>
                  /\ poller' = schedule_timer(irq_ok)
                  /\ out'.code = OPAL_SUCCESS
                  /\ regs' = regs
       /\ out'.logs = {"Sending BMC interrupt"} =>
             \E c \in Callers : pc[c] = "ping" /\ pc'[c] = "sched"
       /\ out'.code \in {OPAL_BUSY, OPAL_WRONG_STATE} => regs' = regs /\ poller' = poller
      ]_vars

\* C18 witness: lpc_ok() said no and the data registers have been written
\* all the same with the message in flight; the doorbell is the next step
\* of the caller.
C18_Witness ==
    \E c \in Callers :
       /\ out.logs = LpcLogs(FALSE)
       /\ pc[c] = "ping"
       /\ in_flight = c
       /\ DataOf(regs) = mem[c]
       /\ ENABLED EnqueuePing(c)

(* ------------------------------------------------------------------ *)
(* C19                                                                 *)
(* ------------------------------------------------------------------ *)
\* C19: a pass comes to its callback step only after it has acknowledged
\* the response bit. With no callback registered the step logs the absence,
\* invokes nothing, changes nothing of the driver and goes on: the pass
\* takes the lock, empties mbox.in_flight, makes the attention check and
\* returns with the poller scheduled, and a caller that then finds the slot
\* empty takes it.
C19_MissingCallbackNotFatal ==
    [][/\ \A d \in Detectors :
            /\ (pc[d] = "callback" /\ pc'[d] # pc[d] /\ callback = NULL) =>
                  /\ out' = Event(NULL, {"Detected NULL callback for mbox message"})
                  /\ pc'[d] = "lock"
                  /\ <<base, irq_ok, callback, drv_data, lock, in_flight, poller>>' =
                        <<base, irq_ok, callback, drv_data, lock, in_flight, poller>>
                  /\ regs' = regs
                  /\ msg'[d] = msg[d]
            /\ (pc[d] = "w1c_ctrl" /\ pc'[d] # pc[d]) => ~RespBit'
            /\ (pc[d] \in {"rd_in_flight", "recv"} /\ pc'[d] # pc[d]) =>
                  regs'[MBOX_HOST_CTRL] = regs[MBOX_HOST_CTRL]
            /\ (pc[d] = "lock" /\ pc'[d] # pc[d]) => pc'[d] = "locked"
            /\ (pc[d] = "locked" /\ pc'[d] # pc[d]) =>
                  in_flight' = NULL /\ pc'[d] = "rd_status"
            /\ (pc[d] = "rd_status" /\ pc'[d] # pc[d]) =>
                  pc'[d] \in {"w1c_status", "sched"}
            /\ (pc[d] = "w1c_status" /\ pc'[d] # pc[d]) => pc'[d] = "sched"
            /\ (pc[d] = "sched" /\ pc'[d] # pc[d]) =>
                  pc'[d] = "idle" /\ poller' # "off"
       /\ \A c \in Callers :
            (pc[c] = "locked" /\ pc'[c] # pc[c] /\ in_flight = NULL) =>
               pc'[c] = "send" /\ out'.code = NULL
      ]_vars

\* C19 witness: a pass has just logged the missing callback for the
\* message in flight, with the response bit acknowledged.
C19_Witness ==
    \E d \in Detectors :
       /\ out.logs = {"Detected NULL callback for mbox message"}
       /\ pc[d] = "lock"
       /\ callback = NULL
       /\ msg[d] = in_flight
       /\ in_flight # NULL
       /\ ~RespBit

(* ------------------------------------------------------------------ *)
(* C20                                                                 *)
(* ------------------------------------------------------------------ *)
\* C20: at the callback step of every pass mbox.in_flight still holds the
\* message the pass hands to the callback and the pass does not hold the
\* lock, so that a call of bmc_mbox_enqueue made by the callback finds the
\* slot taken; the step itself leaves mbox.in_flight as it is.
C20_CallbackBeforeClear ==
    [][\A d \in Detectors :
         (pc[d] = "callback" /\ pc'[d] # pc[d]) =>
            /\ msg[d] # NULL
            /\ in_flight = msg[d]
            /\ lock # d
            /\ in_flight' = in_flight
      ]_vars

====
